---- MODULE Spec2Model ----
(***************************************************************************)
(* A model of the DLite entities service: the identity codec               *)
(* (dlite_entities_service/models/__init__.py), the SOFT5 entity model     *)
(* (models/soft5.py), the backend contract (service/backend/backend.py),   *)
(* the routes and the startup of the two application modules (main.py),    *)
(* the upload command and the config commands of the CLI (cli/config.py).  *)
(*                                                                         *)
(* Python strings are sequences of one-character strings, so that split,   *)
(* startswith, the URI regular expression, int() and str() are computed    *)
(* character by character.  None is the one-element sequence <<"None">>,   *)
(* which no Python string of the model equals (its element is not a        *)
(* character).                                                             *)
(***************************************************************************)
EXTENDS Integers, Sequences, FiniteSets, TLC

VARIABLES
    is_closed,      \* Backend._is_closed
    initialized,    \* whether initialize() has completed on the backend
    auth_level,     \* "read" | "write": the access the backend was opened with
    store,          \* the backend's records: each an identity and the entity kept at it
    ledger,         \* per identity, the last successful create or delete of it
    call,           \* the last backend call: its operation, input and outcome
    doc,            \* the raw document handed to the entity model
    pc,             \* "raw" | "entity" | "rejected": what became of doc
    entity,         \* the entity built from doc (NoEntity before, or on rejection)
    errors,         \* the validation errors soft_entity handed back or raised
    out,            \* the last identity-codec call on entity and its result
    app,            \* the application module that is running, "none" outside a service
    started,        \* whether the application's startup has completed
    dotenv          \* the CLI's dotenv file, in each of two runs that differ in their secrets

backendVars == <<is_closed, initialized, auth_level, store, ledger, call>>
codecVars == <<doc, pc, entity, errors, out>>
hostVars == <<app, started, dotenv>>
vars ==
    <<is_closed, initialized, auth_level, store, ledger, call, doc, pc, entity, errors, out,
      app, started, dotenv>>

----------------------------------------------------------------------------
(* Bounds of the model.                                                    *)

\* Every version string of at most MaxVerLen characters over VerAlphabet is an input.
MaxVerLen == 4

----------------------------------------------------------------------------
(* Strings.                                                                *)

None == <<"None">>

\* str(x) of an optional string: str(None) is the four characters "None".
Str(x) == IF x = None THEN <<"N", "o", "n", "e">> ELSE x

\* s.startswith(p)
StartsWith(s, p) == Len(p) <= Len(s) /\ SubSeq(s, 1, Len(p)) = p

\* s.rstrip("/")
RECURSIVE RStripSlash(_)
RStripSlash(s) ==
    IF Len(s) > 0 /\ s[Len(s)] = "/" THEN RStripSlash(SubSeq(s, 1, Len(s) - 1)) ELSE s

\* s.split(c) for a one-character separator: never empty, keeps empty components.
RECURSIVE Split(_, _)
Split(s, c) ==
    IF \A i \in 1..Len(s) : s[i] # c
    THEN <<s>>
    ELSE LET i == CHOOSE k \in 1..Len(s) : s[k] = c /\ \A j \in 1..(k - 1) : s[j] # c
         IN  <<SubSeq(s, 1, i - 1)>> \o Split(SubSeq(s, i + 1, Len(s)), c)

DigitChars == <<"0", "1", "2", "3", "4", "5", "6", "7", "8", "9">>
DigitSet == {DigitChars[i] : i \in 1..10}
DigitVal(c) == (CHOOSE i \in 1..10 : DigitChars[i] = c) - 1

IsDigits(s) == Len(s) > 0 /\ \A i \in 1..Len(s) : s[i] \in DigitSet

\* Whether int(s) accepts s: an optional sign and one or more decimal digits.
\* (int() also accepts surrounding white space and single underscores between
\* digits; no string of the model holds either.)
IntAccepts(s) ==
    \/ IsDigits(s)
    \/ Len(s) > 1 /\ s[1] \in {"-", "+"} /\ IsDigits(Tail(s))

RECURSIVE DigitsToNat(_)
DigitsToNat(s) ==
    IF Len(s) = 0 THEN 0
    ELSE 10 * DigitsToNat(SubSeq(s, 1, Len(s) - 1)) + DigitVal(s[Len(s)])

\* int(s), for a string int() accepts.
StrToInt(s) ==
    IF s[1] = "-" THEN 0 - DigitsToNat(Tail(s))
    ELSE IF s[1] = "+" THEN DigitsToNat(Tail(s))
    ELSE DigitsToNat(s)

RECURSIVE NatToStr(_)
NatToStr(n) ==
    IF n < 10 THEN <<DigitChars[n + 1]>>
    ELSE NatToStr(n \div 10) \o <<DigitChars[(n % 10) + 1]>>

\* str(n) of an integer.
IntToStr(n) == IF n < 0 THEN <<"-">> \o NatToStr(0 - n) ELSE NatToStr(n)

\* All strings over alphabet of length at most n.
RECURSIVE StringsUpTo(_, _)
StringsUpTo(alphabet, n) ==
    IF n = 0 THEN {<<>>}
    ELSE LET shorter == StringsUpTo(alphabet, n - 1)
         IN  shorter \cup {Append(s, c) : s \in shorter, c \in alphabet}

----------------------------------------------------------------------------
(* Results of calls: a value, or the exception raised.                     *)

Ok(v) == [ok |-> TRUE, val |-> v, err |-> "none"]
Err(e) == [ok |-> FALSE, val |-> None, err |-> e]
NoCall == [op |-> "none", res |-> Ok(None)]

----------------------------------------------------------------------------
(* Configuration and URLs.                                                 *)

HttpScheme == <<"h", "t", "t", "p", ":", "/", "/">>
HttpsScheme == <<"h", "t", "t", "p", "s", ":", "/", "/">>
OntoNsHost == <<"o", "n", "t", "o", "-", "n", "s", ".", "c", "o", "m">>

\* The part of an http(s) URL after "scheme://", or None for any other string.
AfterScheme(s) ==
    IF StartsWith(s, HttpScheme) THEN SubSeq(s, Len(HttpScheme) + 1, Len(s))
    ELSE IF StartsWith(s, HttpsScheme) THEN SubSeq(s, Len(HttpsScheme) + 1, Len(s))
    ELSE None

\* What the AnyHttpUrl field type accepts: http:// or https:// and a host.
IsHttpUrl(s) ==
    /\ s # None
    /\ AfterScheme(s) # None
    /\ Len(AfterScheme(s)) > 0
    /\ AfterScheme(s)[1] \notin {"/", "?", "#"}

\* str() of an AnyHttpUrl: a URL with no path gets the path "/".
UrlStr(s) == IF \A i \in 1..Len(AfterScheme(s)) : AfterScheme(s)[i] # "/" THEN s \o <<"/">> ELSE s

\* ServiceSettings.base_url: the default, its ending slashes stripped.
base_url == RStripSlash(HttpScheme \o OntoNsHost \o <<"/", "m", "e", "t", "a">>)

\* The one metadata entity SOFT5Entity.meta may name.
EntitySchemaUri ==
    HttpScheme \o OntoNsHost
        \o <<"/", "m", "e", "t", "a", "/", "0", ".", "3", "/">>
        \o <<"E", "n", "t", "i", "t", "y", "S", "c", "h", "e", "m", "a">>

----------------------------------------------------------------------------
(* Raw documents and entities.  A raw document is a record of the keys the *)
(* entity models read; None is an absent key.  props is the shape of the   *)
(* document's "properties": "absent", a "list" of well-formed SOFT5        *)
(* properties, a "dict" (a shape of the other dialect only), or "strict": a *)
(* list of properties in the stricter typed shape, which satisfies the     *)
(* structural constraints of both dialects.                                *)

NoEntity ==
    [dialect |-> "none", name |-> None, version |-> None, namespace |-> None,
     uri |-> None, meta |-> None, props |-> "absent", fields_set |-> {}]

\* entity.model_fields_set: the fields the document gave, which are the ones
\* that were set when the entity was built; the others hold their defaults.
model_fields_set(data) ==
    {k \in {"name", "version", "namespace", "uri", "meta"} : data[k] # None}
        \cup (IF data.props = "absent" THEN {} ELSE {"properties"})

IdentityKeys == {"name", "version", "namespace"}

\* _check_cross_dependent_fields without its test.
check_cross_dependent_fields_unchecked(data) == TRUE

\* SOFT5Entity._check_cross_dependent_fields: name, version and namespace are
\* all set or all unset.
check_cross_dependent_fields(data) ==
    IF \E k \in IdentityKeys : data[k] = None
    THEN \A k \in IdentityKeys : data[k] = None
    ELSE TRUE

\* _validate_base_url without its test.
validate_base_url_any(value) == TRUE

\* SOFT5Entity._validate_base_url, for a uri or namespace that is given.
validate_base_url(value) == StartsWith(UrlStr(value), base_url)

\* SOFT5Entity._only_support_onto_ns, for a meta that is given.
only_support_onto_ns(value) == UrlStr(value) = EntitySchemaUri

\* Whether SOFT5Entity(**data) validates.
SOFT5Valid(data) ==
    /\ check_cross_dependent_fields(data)
    /\ data.namespace # None => IsHttpUrl(data.namespace) /\ validate_base_url(data.namespace)
    /\ data.uri # None => IsHttpUrl(data.uri) /\ validate_base_url(data.uri)
    /\ data.meta # None => IsHttpUrl(data.meta) /\ only_support_onto_ns(data.meta)
    /\ data.props \in {"list", "strict"}

\* SOFT5Entity(**data): the entity, or the ValidationError.
SOFT5Entity(data) ==
    IF SOFT5Valid(data)
    THEN Ok([dialect |-> "SOFT5",
             name |-> data.name,
             version |-> data.version,
             namespace |-> IF data.namespace = None THEN None ELSE UrlStr(data.namespace),
             uri |-> IF data.uri = None THEN None ELSE UrlStr(data.uri),
             meta |-> IF data.meta = None THEN EntitySchemaUri ELSE UrlStr(data.meta),
             props |-> data.props,
             fields_set |-> model_fields_set(data)])
    ELSE Err("ValidationError")

----------------------------------------------------------------------------
(* The identity codec.                                                     *)

NoMatch == [matched |-> FALSE, namespace |-> None, version |-> None, name |-> None]

\* URI_REGEX.match(s):
\*   ^(?P<namespace>https?://[^/]+)/(?P<version>[^/]+)/(?P<name>[^/#?]+)$
\* After the scheme, [^/]+ / [^/]+ / [^/#?]+ is exactly three non-empty
\* "/"-separated segments, the last free of "#" and "?".
URI_REGEX(s) ==
    IF AfterScheme(s) = None THEN NoMatch
    ELSE LET segs == Split(AfterScheme(s), "/")
             scheme == SubSeq(s, 1, Len(s) - Len(AfterScheme(s)))
         IN  IF /\ Len(segs) = 3
                /\ \A i \in 1..3 : Len(segs[i]) > 0
                /\ \A i \in 1..Len(segs[3]) : segs[3][i] \notin {"#", "?"}
             THEN [matched |-> TRUE, namespace |-> scheme \o segs[1],
                   version |-> segs[2], name |-> segs[3]]
             ELSE NoMatch

\* get_uri(entity)
get_uri(e) ==
    IF e.uri # None THEN Str(e.uri)
    ELSE Str(e.namespace) \o <<"/">> \o Str(e.version) \o <<"/">> \o Str(e.name)

\* get_version(entity)
get_version(e) ==
    IF e.version # None THEN Ok(e.version)
    ELSE IF URI_REGEX(Str(e.uri)).matched THEN Ok(URI_REGEX(Str(e.uri)).version)
    ELSE Err("ValueError: Cannot parse URI to get version.")

\* updated_version with the MAJOR.MINOR case appending ".0" instead of ".1".
updated_version_minor_zero(current_version) ==
    LET split_version == Split(current_version, ".")
    IN  IF Len(split_version) = 1
        THEN Ok(split_version[1] \o <<".", "1">>)
        ELSE IF Len(split_version) = 2
        THEN Ok(split_version[1] \o <<".">> \o split_version[2] \o <<".", "0">>)
        ELSE IF Len(split_version) = 3
        THEN IF IntAccepts(split_version[3])
             THEN Ok(split_version[1] \o <<".">> \o split_version[2] \o <<".">>
                        \o IntToStr(StrToInt(split_version[3]) + 1))
             ELSE Err("ValueError: invalid literal for int()")
        ELSE Err("ValueError: Cannot parse version to get updated version.")

\* updated_version with the last length test written >= instead of ==, so
\* that components after PATCH are dropped instead of refused.
updated_version_at_least_three(current_version) ==
    LET split_version == Split(current_version, ".")
    IN  IF Len(split_version) = 1
        THEN Ok(split_version[1] \o <<".", "1">>)
        ELSE IF Len(split_version) = 2
        THEN Ok(split_version[1] \o <<".">> \o split_version[2] \o <<".", "1">>)
        ELSE IF Len(split_version) >= 3
        THEN IF IntAccepts(split_version[3])
             THEN Ok(split_version[1] \o <<".">> \o split_version[2] \o <<".">>
                        \o IntToStr(StrToInt(split_version[3]) + 1))
             ELSE Err("ValueError: invalid literal for int()")
        ELSE Err("ValueError: Cannot parse version to get updated version.")

\* The body of get_updated_version once the current version is known.
updated_version(current_version) ==
    LET split_version == Split(current_version, ".")
        major_length == 1
        minor_length == 2
        patch_length == 3
    IN  IF Len(split_version) = major_length
        THEN Ok(split_version[1] \o <<".", "1">>)
        ELSE IF Len(split_version) = minor_length
        THEN Ok(split_version[1] \o <<".">> \o split_version[2] \o <<".", "1">>)
        ELSE IF Len(split_version) = patch_length
        THEN IF IntAccepts(split_version[3])
             THEN Ok(split_version[1] \o <<".">> \o split_version[2] \o <<".">>
                        \o IntToStr(StrToInt(split_version[3]) + 1))
             ELSE Err("ValueError: invalid literal for int()")
        ELSE Err("ValueError: Cannot parse version to get updated version.")

\* get_updated_version(entity)
get_updated_version(e) ==
    IF get_version(e).ok THEN updated_version(get_version(e).val) ELSE get_version(e)

----------------------------------------------------------------------------
(* Dialect resolution.                                                     *)

\* SOFT7Entity(**data).  The other dialect shares the identity fields and
\* their rules and differs in the shape of the body: its properties have
\* stricter typed shapes.
SOFT7Entity(data) ==
    IF /\ check_cross_dependent_fields(data)
       /\ data.namespace # None => IsHttpUrl(data.namespace) /\ validate_base_url(data.namespace)
       /\ data.uri # None => IsHttpUrl(data.uri) /\ validate_base_url(data.uri)
       /\ data.meta # None => IsHttpUrl(data.meta) /\ only_support_onto_ns(data.meta)
       /\ data.props \in {"dict", "strict"}
    THEN Ok([dialect |-> "SOFT7",
             name |-> data.name,
             version |-> data.version,
             namespace |-> IF data.namespace = None THEN None ELSE UrlStr(data.namespace),
             uri |-> IF data.uri = None THEN None ELSE UrlStr(data.uri),
             meta |-> IF data.meta = None THEN EntitySchemaUri ELSE UrlStr(data.meta),
             props |-> data.props,
             fields_set |-> model_fields_set(data)])
    ELSE Err("ValidationError")

\* get_args(VersionedSOFTEntity): the dialects in the order they are tried.
VersionedSOFTEntity == <<"SOFT7", "SOFT5">>

Construct(cls, data) == IF cls = "SOFT7" THEN SOFT7Entity(data) ELSE SOFT5Entity(data)

\* The ValidationError a dialect raised.
DialectError(cls, data) == [cls |-> cls, err |-> Construct(cls, data).err]

\* soft_entity with the loop running on after a dialect has validated, so
\* that the last dialect that validates is the one returned.
soft_entity_last_wins(return_errors, data) ==
    LET passing == {i \in 1..Len(VersionedSOFTEntity) : Construct(VersionedSOFTEntity[i], data).ok}
        last == CHOOSE i \in passing : \A j \in passing : i >= j
        errs == [i \in 1..Len(VersionedSOFTEntity) |-> DialectError(VersionedSOFTEntity[i], data)]
    IN  IF passing # {}
        THEN [kind |-> "entity", entity |-> Construct(VersionedSOFTEntity[last], data).val,
              errors |-> <<>>]
        ELSE IF return_errors
        THEN [kind |-> "errors", entity |-> NoEntity, errors |-> errs]
        ELSE [kind |-> "ValueError", entity |-> NoEntity, errors |-> errs]

\* soft_entity keeping only the first dialect's error.
soft_entity_first_error(return_errors, data) ==
    LET passing == {i \in 1..Len(VersionedSOFTEntity) : Construct(VersionedSOFTEntity[i], data).ok}
        first == CHOOSE i \in passing : \A j \in passing : i <= j
        errs == <<DialectError(VersionedSOFTEntity[1], data)>>
    IN  IF passing # {}
        THEN [kind |-> "entity", entity |-> Construct(VersionedSOFTEntity[first], data).val,
              errors |-> <<>>]
        ELSE IF return_errors
        THEN [kind |-> "errors", entity |-> NoEntity, errors |-> errs]
        ELSE [kind |-> "ValueError", entity |-> NoEntity, errors |-> errs]

\* soft_entity(return_errors=..., **data): the entity of the first dialect
\* that validates; else the list of every dialect's error, in the order the
\* dialects were tried (returned when return_errors, raised in a ValueError
\* whose message joins them otherwise).
soft_entity(return_errors, data) ==
    LET passing == {i \in 1..Len(VersionedSOFTEntity) : Construct(VersionedSOFTEntity[i], data).ok}
        first == CHOOSE i \in passing : \A j \in passing : i <= j
        errs == [i \in 1..Len(VersionedSOFTEntity) |-> DialectError(VersionedSOFTEntity[i], data)]
    IN  IF passing # {}
        THEN [kind |-> "entity", entity |-> Construct(VersionedSOFTEntity[first], data).val,
              errors |-> <<>>]
        ELSE IF return_errors
        THEN [kind |-> "errors", entity |-> NoEntity, errors |-> errs]
        ELSE [kind |-> "ValueError", entity |-> NoEntity, errors |-> errs]

----------------------------------------------------------------------------
(* The inputs of the entity model and the identity codec.                  *)

VerAlphabet == {"0", "1", "9", ".", "a", "-"}

Chars1 == <<"1">>
Chars2_3 == <<"2", ".", "3">>
Chars2_3_4 == <<"2", ".", "3", ".", "4">>
Chars1_2_3_4 == <<"1", ".", "2", ".", "3", ".", "4">>
Chars1_2_beta == <<"1", ".", "2", ".", "b", "e", "t", "a">>
Chars1_x == <<"1", ".", "x">>
Chars1__2 == <<"1", ".", ".", "2">>
Chars0_3 == <<"0", ".", "3">>
Chars1_0 == <<"1", ".", "0">>
Chars01 == <<"0", "1">>

\* The version strings tried: every short string, and the ones the
\* documentation names.
VersionStrings ==
    StringsUpTo(VerAlphabet, MaxVerLen)
        \cup {Chars1, Chars2_3, Chars2_3_4, Chars1_2_3_4, Chars1_2_beta, Chars1_x, Chars1__2}

NameA == <<"A">>
NameEntity == <<"E", "n", "t", "i", "t", "y">>

\* http://onto-ns.com/meta/ : the base URL with a trailing slash
BaseUrlSlash == base_url \o <<"/">>
\* http://onto-ns.com : a namespace with no path (outside the base URL)
HostOnly == HttpScheme \o OntoNsHost
\* http://onto-ns.com/meta/sub : a namespace below the base URL
BaseUrlSub == base_url \o <<"/", "s", "u", "b">>

Namespaces == {None, base_url, BaseUrlSlash, HostOnly, BaseUrlSub}
Names == {None, NameA, NameEntity}
FewVersions == {None, Chars0_3, Chars1}

Uris ==
    {None,
     base_url \o <<"/">> \o Chars0_3 \o <<"/">> \o NameEntity,  \* http://onto-ns.com/meta/0.3/Entity
     base_url \o <<"/">> \o Chars1 \o <<"/">> \o NameA,         \* http://onto-ns.com/meta/1/A
     HostOnly \o <<"/">> \o Chars0_3 \o <<"/">> \o NameA,       \* http://onto-ns.com/0.3/A
     base_url \o Chars0_3 \o <<"/">> \o NameA,                  \* http://onto-ns.com/meta0.3/A
     <<"n", "o", "t", "a", "u", "r", "l">>}

Metas == {None, EntitySchemaUri, base_url \o <<"/", "1", "/", "M">>}
PropsShapes == {"absent", "list", "dict", "strict"}

\* Documents that vary the identity fields and the body.
IdentityDocs ==
    [name : Names, version : FewVersions, namespace : Namespaces, uri : Uris,
     meta : Metas, props : PropsShapes]

\* Documents that vary the version, with or without a uri to fall back on.
VersionDocs ==
    [name : {NameA}, version : VersionStrings, namespace : {base_url}, uri : {None},
     meta : {None}, props : {"list", "dict"}]

----------------------------------------------------------------------------
(* The entity model and the identity codec as operations on one document.  *)

\* SOFT5Entity(**doc)
NewSOFT5Entity ==
    /\ pc = "raw"
    /\ entity' = SOFT5Entity(doc).val
    /\ pc' = IF SOFT5Entity(doc).ok THEN "entity" ELSE "rejected"
    /\ out' = [op |-> "SOFT5Entity", res |-> SOFT5Entity(doc)]
    /\ UNCHANGED <<doc, errors>>
    /\ UNCHANGED <<backendVars, hostVars>>

\* soft_entity(return_errors=..., **doc), also called again on the same
\* document.  out.res is the entity, or Err of "errors" (the list of errors
\* was returned) or "ValueError" (it was raised); errors is that list.
Resolve ==
    \E return_errors \in BOOLEAN :
        /\ pc = "raw" \/ out.op = "soft_entity"
        /\ entity' = soft_entity(return_errors, doc).entity
        /\ errors' = soft_entity(return_errors, doc).errors
        /\ pc' = IF soft_entity(return_errors, doc).kind = "entity" THEN "entity" ELSE "rejected"
        /\ out' = [op |-> "soft_entity",
                   res |-> IF soft_entity(return_errors, doc).kind = "entity"
                           THEN Ok(soft_entity(return_errors, doc).entity)
                           ELSE Err(soft_entity(return_errors, doc).kind)]
        /\ UNCHANGED doc
        /\ UNCHANGED <<backendVars, hostVars>>

\* get_uri(entity)
GetUri ==
    /\ pc = "entity"
    /\ out' = [op |-> "get_uri", res |-> Ok(get_uri(entity))]
    /\ UNCHANGED <<doc, pc, entity, errors>>
    /\ UNCHANGED <<backendVars, hostVars>>

\* URI_REGEX.match(get_uri(entity)): the built identity parsed back.
ParseUri ==
    /\ pc = "entity"
    /\ out' = [op |-> "parse",
               res |-> IF URI_REGEX(get_uri(entity)).matched
                       THEN Ok(URI_REGEX(get_uri(entity)))
                       ELSE Err("no match")]
    /\ UNCHANGED <<doc, pc, entity, errors>>
    /\ UNCHANGED <<backendVars, hostVars>>

\* get_version(entity)
GetVersion ==
    /\ pc = "entity"
    /\ out' = [op |-> "get_version", res |-> get_version(entity)]
    /\ UNCHANGED <<doc, pc, entity, errors>>
    /\ UNCHANGED <<backendVars, hostVars>>

\* get_updated_version(entity)
GetUpdatedVersion ==
    /\ pc = "entity"
    /\ out' = [op |-> "get_updated_version", res |-> get_updated_version(entity)]
    /\ UNCHANGED <<doc, pc, entity, errors>>
    /\ UNCHANGED <<backendVars, hostVars>>

NextCodec ==
    \/ NewSOFT5Entity
    \/ Resolve
    \/ GetUri
    \/ ParseUri
    \/ GetVersion
    \/ GetUpdatedVersion


----------------------------------------------------------------------------
(* The backend.  Backend (backend.py) gives the closed flag, close() and   *)
(* the containment check; initialize, create, read, update, delete, search *)
(* and count are abstract there, and follow the backend contract of the    *)
(* design.                                                                 *)

\* The most entities one create() call is given.
MaxBatch == 2

NoDoc ==
    [name |-> None, version |-> None, namespace |-> None, uri |-> None,
     meta |-> None, props |-> "absent"]

\* The things handed to the backend: a raw document (a dict), a string, an
\* entity, or something else.
DictItem(d) == [kind |-> "dict", doc |-> d, str |-> None, entity |-> NoEntity]
StrItem(t) == [kind |-> "str", doc |-> NoDoc, str |-> t, entity |-> NoEntity]
EntityItem(e) == [kind |-> "entity", doc |-> NoDoc, str |-> None, entity |-> e]
OtherItem == [kind |-> "other", doc |-> NoDoc, str |-> None, entity |-> NoEntity]
NoItem == [kind |-> "none", doc |-> NoDoc, str |-> None, entity |-> NoEntity]

\* {"name": "A", "version": "1", "namespace": "http://onto-ns.com/meta", "properties": [...]}
DocA ==
    [name |-> NameA, version |-> Chars1, namespace |-> base_url, uri |-> None,
     meta |-> None, props |-> "list"]
\* {"uri": "http://onto-ns.com/meta/0.3/Entity", "properties": {...}}
DocEntity ==
    [name |-> None, version |-> None, namespace |-> None,
     uri |-> base_url \o <<"/">> \o Chars0_3 \o <<"/">> \o NameEntity,
     meta |-> None, props |-> "dict"]
\* {"name": "A", "version": "1", "namespace": "http://onto-ns.com/meta", "properties": {...}}:
\* the identity of DocA with another body
DocA7 ==
    [name |-> NameA, version |-> Chars1, namespace |-> base_url, uri |-> None,
     meta |-> None, props |-> "dict"]
\* {"name": "A", "properties": [...]}: a partial identity, which no dialect accepts
DocPartial ==
    [name |-> NameA, version |-> None, namespace |-> None, uri |-> None,
     meta |-> None, props |-> "list"]

UriA == get_uri(SOFT5Entity(DocA).val)
UriEntity == get_uri(SOFT7Entity(DocEntity).val)
\* http://onto-ns.com/meta/0.3/EntitySchema: well formed, never created
UriAbsent == EntitySchemaUri
\* http://onto-ns.com/meta/0.3/Entity/1.0: a component too many
UriMalformed == UriEntity \o <<"/", "1", ".", "0">>
\* http://onto-ns.com/meta/Entity/1.0: the name where the version belongs
UriSwapped == base_url \o <<"/">> \o NameEntity \o <<"/">> \o Chars1_0

BackendDocs == {DocA, DocA7, DocEntity, DocPartial}
BackendEntities == {SOFT5Entity(DocA).val, SOFT7Entity(DocA7).val, SOFT7Entity(DocEntity).val}
BackendStrings == {UriA, UriEntity, UriAbsent, UriMalformed, UriSwapped}

Items ==
    {DictItem(d) : d \in BackendDocs}
        \cup {StrItem(t) : t \in BackendStrings}
        \cup {EntityItem(e) : e \in BackendEntities}
        \cup {OtherItem}

\* What create() and update() take: entities and raw documents.
Inputs ==
    {DictItem(DocA), DictItem(DocA7), DictItem(DocPartial),
     EntityItem(SOFT7Entity(DocEntity).val)}

Batches == UNION {[1..n -> Inputs] : n \in 1..MaxBatch}

\* The lifecycle state of the backend instance.
Phase ==
    IF is_closed THEN "Closed"
    ELSE IF initialized THEN "Initialized"
    ELSE "Uninitialized"

LowerLetters ==
    {"a", "b", "c", "d", "e", "f", "g", "h", "i", "j", "k", "l", "m",
     "n", "o", "p", "q", "r", "s", "t", "u", "v", "w", "x", "y", "z"}
UpperLetters ==
    {"A", "B", "C", "D", "E", "F", "G", "H", "I", "J", "K", "L", "M",
     "N", "O", "P", "Q", "R", "S", "T", "U", "V", "W", "X", "Y", "Z"}
Letters == LowerLetters \cup UpperLetters

\* 0|[1-9]\d*
NumericIdentifier(s) == IsDigits(s) /\ (Len(s) > 1 => s[1] # "0")

\* [0-9a-zA-Z-]+
AlphaNumHyphen(s) ==
    Len(s) > 0 /\ \A i \in 1..Len(s) : s[i] \in DigitSet \cup Letters \cup {"-"}

\* 0|[1-9]\d*|\d*[a-zA-Z-][0-9a-zA-Z-]* : alphanumerics and hyphens, with no
\* leading zero when all are digits.
PrereleaseIdentifier(s) == AlphaNumHyphen(s) /\ (IsDigits(s) => NumericIdentifier(s))

\* The place of the first c in s, or Len(s) + 1 when there is none.
FirstIndex(s, c) ==
    IF \E i \in 1..Len(s) : s[i] = c
    THEN CHOOSE i \in 1..Len(s) : s[i] = c /\ \A j \in 1..(i - 1) : s[j] # c
    ELSE Len(s) + 1

\* Whether SEMVER_REGEX matches s: MAJOR[.MINOR[.PATCH]][-prerelease][+build].
\* The first "+" starts the build metadata and, before it, the first "-"
\* starts the prerelease, as neither character can occur earlier.
SEMVER_REGEX(s) ==
    LET plus == FirstIndex(s, "+")
        front == SubSeq(s, 1, plus - 1)
        hyphen == FirstIndex(front, "-")
        core == Split(SubSeq(front, 1, hyphen - 1), ".")
        prerelease == Split(SubSeq(front, hyphen + 1, Len(front)), ".")
        build == Split(SubSeq(s, plus + 1, Len(s)), ".")
    IN  /\ Len(core) \in 1..3
        /\ \A i \in 1..Len(core) : NumericIdentifier(core[i])
        /\ hyphen <= Len(front) => \A i \in 1..Len(prerelease) : PrereleaseIdentifier(prerelease[i])
        /\ plus <= Len(s) => \A i \in 1..Len(build) : AlphaNumHyphen(build[i])

\* Whether (?i)^[A-Z]+$ matches s.
NamePattern(s) == Len(s) > 0 /\ \A i \in 1..Len(s) : s[i] \in Letters

\* An identity the backend can look up: {base_url}/{version}/{name}, with the
\* version and the name the service's route accepts.
WellFormedIdentity(identity) ==
    /\ StartsWith(identity, base_url \o <<"/">>)
    /\ LET rest == Split(SubSeq(identity, Len(base_url) + 2, Len(identity)), "/")
       IN  Len(rest) = 2 /\ SEMVER_REGEX(rest[1]) /\ NamePattern(rest[2])

\* A record: the canonical identity it is kept at, the identifier the engine
\* gave it, and the entity's fields.
Record(identity, id, e) == [identity |-> identity, _id |-> id, entity |-> e]

\* The engine's identifiers in use.
Ids(records) == {r._id : r \in records}

\* The identifier the engine gives the i-th record it inserts: one that no
\* record has.
NewId(i) ==
    CHOOSE n \in 1..(Cardinality(store) + i) :
        /\ n \notin Ids(store)
        /\ Cardinality({m \in 1..n : m \notin Ids(store)}) = i

\* The record the i-th entity of a batch is created as.
RecordOf(e, i) == Record(get_uri(e), NewId(i), e)

\* The record at an identity.
RecordAt(identity) == CHOOSE r \in store : r.identity = identity

\* soft_entity(return_errors=True, **d) of the raw documents.
Resolution == [d \in BackendDocs |-> soft_entity(TRUE, d)]

\* The entity an input stands for: itself, or the raw document resolved.
Resolved(item) ==
    IF item.kind = "dict" THEN Resolution[item.doc].entity ELSE item.entity

Resolves(item) ==
    item.kind = "entity" \/ (item.kind = "dict" /\ Resolution[item.doc].kind = "entity")

\* What read returns when there is no record: None, as a record so that it
\* can be told from the records.
NoRecord == NoEntity

\* Backend.read(entity_identity): the entity of the record at the identity,
\* None when there is none.
read(entity_identity) ==
    IF Phase # "Initialized" THEN Err("BackendError")
    ELSE IF ~WellFormedIdentity(entity_identity) THEN Err("MalformedIdentity")
    ELSE IF \E r \in store : r.identity = entity_identity
    THEN Ok(RecordAt(entity_identity).entity)
    ELSE Ok(NoRecord)

\* `x is not None` of what read returned, or the exception read raised.
IsNotNone(res) == IF res.ok THEN Ok(res.val # NoRecord) ELSE res

\* Backend.__contains__ with the string branch swallowing what read raises.
contains_swallowing(item) ==
    IF item.kind = "dict" /\ soft_entity(TRUE, item.doc).kind = "errors"
    THEN Ok(FALSE)
    ELSE LET it == IF item.kind = "dict"
                   THEN EntityItem(soft_entity(TRUE, item.doc).entity)
                   ELSE item
         IN  IF it.kind = "str" THEN Ok(read(it.str).ok /\ read(it.str).val # NoRecord)
             ELSE IF it.kind = "entity" THEN IsNotNone(read(get_uri(it.entity)))
             ELSE Ok(FALSE)

\* Backend.__contains__ resolving a raw document without return_errors, so
\* that a document no dialect accepts raises.
contains_unresolved_raises(item) ==
    IF item.kind = "dict" /\ soft_entity(FALSE, item.doc).kind = "ValueError"
    THEN Err("ValueError")
    ELSE LET it == IF item.kind = "dict"
                   THEN EntityItem(soft_entity(FALSE, item.doc).entity)
                   ELSE item
         IN  IF it.kind = "str" THEN IsNotNone(read(it.str))
             ELSE IF it.kind = "entity" THEN IsNotNone(read(get_uri(it.entity)))
             ELSE Ok(FALSE)

\* Backend.__contains__(item)
contains(item) ==
    IF item.kind = "dict" /\ soft_entity(TRUE, item.doc).kind = "errors"
    THEN Ok(FALSE)
    ELSE LET it == IF item.kind = "dict"
                   THEN EntityItem(soft_entity(TRUE, item.doc).entity)
                   ELSE item
         IN  IF it.kind = "str" THEN IsNotNone(read(it.str))
             ELSE IF it.kind = "entity" THEN IsNotNone(read(get_uri(it.entity)))
             ELSE Ok(FALSE)

Called(op, arg, res) == call' = [op |-> op, arg |-> arg, res |-> res]

\* Backend.initialize()
Initialize ==
    /\ initialized' = TRUE
    /\ Called("initialize", NoItem, Ok(None))
    /\ UNCHANGED <<is_closed, auth_level, store, ledger>>
    /\ UNCHANGED <<codecVars, hostVars>>

\* The identities of the records.
Identities(records) == {r.identity : r \in records}

\* The records a batch stands for, once every input resolves.
NewRecords(entities) == {RecordOf(Resolved(entities[i]), i) : i \in 1..Len(entities)}

\* What a failed operation leaves: its error, and the records as they were.
Failed(e) == [res |-> Err(e), store |-> store]

\* A Python list, told from a mapping by its one key.
List(seq) == [list |-> seq]
IsList(v) == "list" \in DOMAIN v

\* What a successful create returns: the one record for exactly one input,
\* a list of the records otherwise.
Created(entities) ==
    IF Len(entities) = 1 THEN Resolved(entities[1])
    ELSE List([i \in 1..Len(entities) |-> Resolved(entities[i])])

\* create() persisting the inputs that precede a malformed one before it
\* fails on that one.
create_partial(entities) ==
    IF Phase # "Initialized" THEN Failed("BackendError")
    ELSE IF auth_level # "write" THEN Failed("BackendWriteAccessError")
    ELSE IF \E i \in 1..Len(entities) : ~Resolves(entities[i])
    THEN LET bad == CHOOSE i \in 1..Len(entities) :
                        ~Resolves(entities[i]) /\ \A j \in 1..(i - 1) : Resolves(entities[j])
         IN  [res |-> Err("ValidationError"),
              store |-> store \cup {RecordOf(Resolved(entities[j]), j) : j \in 1..(bad - 1)}]
    ELSE IF \/ Identities(NewRecords(entities)) \cap Identities(store) # {}
            \/ Cardinality(Identities(NewRecords(entities))) < Len(entities)
    THEN Failed("DuplicateError")
    ELSE [res |-> Ok(Created(entities)), store |-> store \cup NewRecords(entities)]

\* create() with no test for an identity that is already taken.
create_allowing_duplicates(entities) ==
    IF Phase # "Initialized" THEN Failed("BackendError")
    ELSE IF auth_level # "write" THEN Failed("BackendWriteAccessError")
    ELSE IF \E i \in 1..Len(entities) : ~Resolves(entities[i])
    THEN Failed("ValidationError")
    ELSE [res |-> Ok(Created(entities)), store |-> store \cup NewRecords(entities)]

\* Backend.create(entities): its outcome and the records after it.  Every
\* input is resolved before anything is persisted; an identity that is taken,
\* or given twice, is a duplicate.
create(entities) ==
    IF Phase # "Initialized" THEN Failed("BackendError")
    ELSE IF auth_level # "write" THEN Failed("BackendWriteAccessError")
    ELSE IF \E i \in 1..Len(entities) : ~Resolves(entities[i])
    THEN Failed("ValidationError")
    ELSE IF \/ Identities(NewRecords(entities)) \cap Identities(store) # {}
            \/ Cardinality(Identities(NewRecords(entities))) < Len(entities)
    THEN Failed("DuplicateError")
    ELSE [res |-> Ok(Created(entities)), store |-> store \cup NewRecords(entities)]

\* Backend.create(entities)
Create ==
    \E entities \in Batches :
        /\ store' = create(entities).store
        /\ ledger' = IF create(entities).res.ok
                      THEN [t \in DOMAIN ledger |->
                               IF t \in Identities(NewRecords(entities)) THEN "created"
                               ELSE ledger[t]]
                      ELSE ledger
        /\ Called("create", entities, create(entities).res)
        /\ UNCHANGED <<is_closed, initialized, auth_level>>
        /\ UNCHANGED <<codecVars, hostVars>>

\* Backend.read(entity_identity)
Read ==
    \E t \in BackendStrings :
        /\ Called("read", StrItem(t), read(t))
        /\ UNCHANGED <<is_closed, initialized, auth_level, store, ledger>>
        /\ UNCHANGED <<codecVars, hostVars>>

\* update() creating the record when there is none.
update_upsert(entity_identity, item) ==
    IF Phase # "Initialized" THEN Failed("BackendError")
    ELSE IF auth_level # "write" THEN Failed("BackendWriteAccessError")
    ELSE IF ~Resolves(item) THEN Failed("ValidationError")
    ELSE [res |-> Ok(None),
          store |-> {r \in store : r.identity # entity_identity}
                        \cup {Record(entity_identity,
                                      IF entity_identity \in Identities(store)
                                      THEN RecordAt(entity_identity)._id ELSE NewId(1),
                                      Resolved(item))}]

\* Backend.update(entity_identity, entity): its outcome and the records after
\* it.  The record at the identity is replaced in full and keeps the
\* identifier the engine gave it.
update(entity_identity, item) ==
    IF Phase # "Initialized" THEN Failed("BackendError")
    ELSE IF auth_level # "write" THEN Failed("BackendWriteAccessError")
    ELSE IF entity_identity \notin Identities(store) THEN Failed("NotFound")
    ELSE IF ~Resolves(item) THEN Failed("ValidationError")
    ELSE [res |-> Ok(None),
          store |-> {r \in store : r.identity # entity_identity}
                        \cup {Record(entity_identity, RecordAt(entity_identity)._id,
                                      Resolved(item))}]

\* Backend.update(entity_identity, entity)
Update ==
    \E t \in BackendStrings, item \in Inputs :
        /\ store' = update(t, item).store
        /\ Called("update", [item EXCEPT !.str = t], update(t, item).res)
        /\ UNCHANGED <<is_closed, initialized, auth_level, ledger>>
        /\ UNCHANGED <<codecVars, hostVars>>

\* delete() that succeeds when there is no record.
delete_idempotent(entity_identity) ==
    IF Phase # "Initialized" THEN Failed("BackendError")
    ELSE IF auth_level # "write" THEN Failed("BackendWriteAccessError")
    ELSE [res |-> Ok(None), store |-> {r \in store : r.identity # entity_identity}]

\* Backend.delete(entity_identity): its outcome and the records after it.
delete(entity_identity) ==
    IF Phase # "Initialized" THEN Failed("BackendError")
    ELSE IF auth_level # "write" THEN Failed("BackendWriteAccessError")
    ELSE IF entity_identity \notin Identities(store) THEN Failed("NotFound")
    ELSE [res |-> Ok(None), store |-> {r \in store : r.identity # entity_identity}]

\* Backend.delete(entity_identity)
Delete ==
    \E t \in BackendStrings :
        /\ store' = delete(t).store
        /\ ledger' = IF delete(t).res.ok THEN [ledger EXCEPT ![t] = "deleted"] ELSE ledger
        /\ Called("delete", StrItem(t), delete(t).res)
        /\ UNCHANGED <<is_closed, initialized, auth_level>>
        /\ UNCHANGED <<codecVars, hostVars>>

\* The queries of search and count: a dialect to match, or "all" (no query).
Queries == {"all", "SOFT5", "SOFT7"}
Matching(query) == {r.entity : r \in {x \in store : query = "all" \/ x.entity.dialect = query}}

\* Backend.search(query)
Search ==
    \E query \in Queries :
        /\ Called("search", NoItem,
                  IF Phase # "Initialized" THEN Err("BackendError") ELSE Ok(Matching(query)))
        /\ UNCHANGED <<is_closed, initialized, auth_level, store, ledger>>
        /\ UNCHANGED <<codecVars, hostVars>>

\* Backend.count(query)
Count ==
    \E query \in Queries :
        /\ Called("count", NoItem,
                  IF Phase # "Initialized" THEN Err("BackendError")
                  ELSE Ok(Cardinality(Matching(query))))
        /\ UNCHANGED <<is_closed, initialized, auth_level, store, ledger>>
        /\ UNCHANGED <<codecVars, hostVars>>

\* item in backend
Contains ==
    \E item \in Items :
        /\ Called("contains", item, contains(item))
        /\ UNCHANGED <<is_closed, initialized, auth_level, store, ledger>>
        /\ UNCHANGED <<codecVars, hostVars>>

\* The version and name of a request GET /{version}/{name}.
PathItem(version, name) ==
    [kind |-> "path", doc |-> NoDoc, str |-> version \o <<"/">> \o name, entity |-> NoEntity]

NameEntitySchema == SubSeq(EntitySchemaUri, Len(base_url) + 6, Len(EntitySchemaUri))
PathVersions == {Chars1, Chars0_3, Chars01, NameEntity}
PathNames == {NameA, NameEntity, NameEntitySchema, Chars1_0}

\* The response model serialized with every field, the defaults of the
\* fields that were never set included.
model_dump_with_defaults(e) ==
    [name |-> e.name, version |-> e.version, namespace |-> e.namespace, uri |-> e.uri,
     meta |-> e.meta, props |-> e.props]

\* response_model_exclude_unset=True: the document the route answers with
\* holds the fields that were set and no other.
model_dump(e) ==
    [name |-> IF "name" \in e.fields_set THEN e.name ELSE None,
     version |-> IF "version" \in e.fields_set THEN e.version ELSE None,
     namespace |-> IF "namespace" \in e.fields_set THEN e.namespace ELSE None,
     uri |-> IF "uri" \in e.fields_set THEN e.uri ELSE None,
     meta |-> IF "meta" \in e.fields_set THEN e.meta ELSE None,
     props |-> IF "properties" \in e.fields_set THEN e.props ELSE "absent"]

\* The response of a route whose handler returned res.
Response(res) == IF res.ok THEN Ok(model_dump(res.val)) ELSE res

\* get_entity accepting any version and name.
get_entity_unvalidated(version, name) ==
    LET uri == base_url \o <<"/">> \o version \o <<"/">> \o name
    IN  IF ~read(uri).ok /\ read(uri).err # "MalformedIdentity" THEN read(uri)
        ELSE IF ~read(uri).ok \/ read(uri).val = NoRecord THEN Err("404 Not Found")
        ELSE Response(read(uri))

\* get_entity(version, name): the route refuses a version or name that does
\* not match its pattern (422); None from read becomes 404.
get_entity(version, name) ==
    IF ~SEMVER_REGEX(version) \/ ~NamePattern(name) THEN Err("422 Unprocessable Entity")
    ELSE LET uri == base_url \o <<"/">> \o version \o <<"/">> \o name
         IN  IF ~read(uri).ok THEN read(uri)
             ELSE IF read(uri).val = NoRecord THEN Err("404 Not Found")
             ELSE Response(read(uri))

\* GET /{version}/{name}
GetEntity ==
    \E version \in PathVersions, name \in PathNames :
        /\ Called("get_entity", PathItem(version, name), get_entity(version, name))
        /\ UNCHANGED <<is_closed, initialized, auth_level, store, ledger>>
        /\ UNCHANGED <<codecVars, hostVars>>

\* The request bodies of the create routes: validated entities.
Bodies == {EntityItem(e) : e \in BackendEntities}
BodyLists == UNION {[1..n -> Bodies] : n \in 1..MaxBatch}

\* What a route's handler leaves: its response and the records.
Handled(res, records) == [res |-> res, store |-> records]

\* The single-create route answering 502 for whatever is not a list.
answer_expecting_list(created_entity) ==
    IF ~created_entity.res.ok THEN Handled(created_entity.res, created_entity.store)
    ELSE IF created_entity.res.val = NoRecord \/ ~IsList(created_entity.res.val)
    THEN Handled(Err("502 Bad Gateway"), created_entity.store)
    ELSE Handled(Response(created_entity.res), created_entity.store)

create_entity_expecting_list(body) == answer_expecting_list(create(<<body>>))

\* What create_entity makes of what create returned: None or a list is
\* answered 502, the created record 201.  What create raises is not caught.
answer_created_entity(created_entity) ==
    IF ~created_entity.res.ok THEN Handled(created_entity.res, created_entity.store)
    ELSE IF created_entity.res.val = NoRecord \/ IsList(created_entity.res.val)
    THEN Handled(Err("502 Bad Gateway"), created_entity.store)
    ELSE Handled(Response(created_entity.res), created_entity.store)

\* create_entity(entity), the entity being the request body: create([entity])
\* and the answer to what it returned.
create_entity(body) == answer_created_entity(create(<<body>>))

\* What create_entities makes of what create returned: None is answered 502,
\* and one record that is not a list is made a list of one.
answer_created_entities(created_entities) ==
    LET records == IF IsList(created_entities.res.val) THEN created_entities.res.val.list
                   ELSE <<created_entities.res.val>>
    IN  IF ~created_entities.res.ok THEN Handled(created_entities.res, created_entities.store)
        ELSE IF created_entities.res.val = NoRecord
        THEN Handled(Err("502 Bad Gateway"), created_entities.store)
        ELSE Handled(Ok(List([i \in 1..Len(records) |-> model_dump(records[i])])),
                     created_entities.store)

\* create_entities(entities): create(entities) and the answer to what it
\* returned.
create_entities(entities) == answer_created_entities(create(entities))

\* A route's handler ran: the records and the ledger after it, and the call.
Answered(op, arg, handled) ==
    /\ store' = handled.store
    /\ ledger' = [t \in DOMAIN ledger |->
                     IF t \in Identities(handled.store) \ Identities(store) THEN "created"
                     ELSE ledger[t]]
    /\ Called(op, arg, handled.res)
    /\ UNCHANGED <<is_closed, initialized, auth_level>>
    /\ UNCHANGED <<codecVars, hostVars>>

\* POST /_admin/create
CreateEntity ==
    \E body \in Bodies : Answered("create_entity", body, create_entity(body))

\* POST /_admin/create_many
CreateEntities ==
    \E entities \in BodyLists : Answered("create_entities", entities, create_entities(entities))

----------------------------------------------------------------------------
(* The upload command: `entities-service upload --file F` or               *)
(* `--dir D --format json`.  A file is its suffix and the document in it;  *)
(* a directory is the listing of its files.                                *)

File(suffix, d) == [suffix |-> suffix, doc |-> d]

\* Person.json and its like: a valid entity each.
FileA == File("json", DocA)
FileEntity == File("json", DocEntity)
\* A JSON file that is no valid entity.
FileInvalid == File("json", DocPartial)
\* Person.txt, Person.yaml: the same entity in another format.
FileTxt == File("txt", DocA)
FileYaml == File("yaml", DocA)

\* The formats an entity file may have.
EntityFileFormats == {"json", "yaml", "yml"}

\* The command lines: no argument at all, --format alone, one --file, or one
\* --dir with --format json.  An option that is not given is <<>>.
UploadCommand(file, dir, format) == [file |-> file, dir |-> dir, format |-> format]
Directories == {<<>>, <<FileYaml>>, <<FileA>>, <<FileA, FileEntity>>, <<FileA, FileYaml>>}
UploadCommands ==
    {UploadCommand(<<>>, <<>>, <<>>), UploadCommand(<<>>, <<>>, <<"json">>)}
        \cup {UploadCommand(<<f>>, <<>>, <<>>) : f \in {FileA, FileEntity, FileInvalid, FileTxt}}
        \cup {UploadCommand(<<>>, <<d>>, <<"json">>) : d \in Directories}

\* What the command leaves: its exit code, what it printed, and the records.
Exit(code, stdout, stderr, records) ==
    [exit_code |-> code, stdout |-> stdout, stderr |-> stderr, store |-> records]

OfFormat(files, formats) ==
    LET Wanted(f) == f.suffix \in formats IN SelectSeq(files, Wanted)

\* The files the command line names: the --file, and the files of the --dir
\* that have the requested format.
FilePaths(cmd) ==
    cmd.file \o (IF cmd.dir = <<>> THEN <<>>
                 ELSE OfFormat(cmd.dir[1], {cmd.format[i] : i \in 1..Len(cmd.format)}))

\* Whether a file holds a valid entity.
Loads(f) == Resolves(DictItem(f.doc))

\* What upload reports once the entities are handed to create.
Uploaded(entities, created, refused) ==
    IF ~created.res.ok THEN Exit(1, <<>>, <<created.res.err>>, created.store)
    ELSE Exit(0, <<"Successfully uploaded", Len(entities), "entities:">>, refused, created.store)

\* The message for the files whose format is not supported.
Refused(filepaths, supported) ==
    IF Len(supported) < Len(filepaths) THEN <<"File format is not supported.">> ELSE <<>>

\* upload of the files that were found, treating one that is no valid entity
\* as one it skips.
upload_files_skipping_invalid(filepaths, supported) ==
    LET entities == [i \in 1..Len(SelectSeq(supported, Loads)) |->
                         DictItem(SelectSeq(supported, Loads)[i].doc)]
    IN  IF entities = <<>>
        THEN Exit(0, <<"No entities were uploaded.">>, Refused(filepaths, supported), store)
        ELSE Uploaded(entities, create(entities), Refused(filepaths, supported))

\* upload of the files that were found: stops with exit code 1 and nothing
\* on standard output when a file is no valid entity; skips a file whose
\* format is not supported; stores the entities through create and reports
\* how many there are.
upload_files(filepaths, supported) ==
    LET entities == [i \in 1..Len(supported) |-> DictItem(supported[i].doc)]
    IN  IF \E i \in 1..Len(supported) : ~Loads(supported[i])
        THEN Exit(1, <<>>, <<"cannot be loaded with DLite.">>, store)
        ELSE IF entities = <<>>
        THEN Exit(0, <<"No entities were uploaded.">>, Refused(filepaths, supported), store)
        ELSE Uploaded(entities, create(entities), Refused(filepaths, supported))

\* upload: with no argument it prints its usage; it stops with exit code 1
\* and nothing on standard output when no file or directory is given and
\* when no file is found.
upload(cmd) ==
    IF cmd.file = <<>> /\ cmd.dir = <<>> /\ cmd.format = <<>>
    THEN Exit(0, <<"Usage">>, <<>>, store)
    ELSE IF cmd.file = <<>> /\ cmd.dir = <<>>
    THEN Exit(1, <<>>, <<"Missing either option '--file' / '-f'">>, store)
    ELSE IF FilePaths(cmd) = <<>>
    THEN Exit(1, <<>>, <<"No files found with the given options.">>, store)
    ELSE upload_files(FilePaths(cmd), OfFormat(FilePaths(cmd), EntityFileFormats))

\* The command ran: the records and the ledger after it, and the call.
Exited(cmd, exit) ==
    /\ store' = exit.store
    /\ ledger' = [t \in DOMAIN ledger |->
                     IF t \in Identities(exit.store) \ Identities(store) THEN "created"
                     ELSE ledger[t]]
    /\ Called("upload", cmd,
              [exit_code |-> exit.exit_code, stdout |-> exit.stdout, stderr |-> exit.stderr])
    /\ UNCHANGED <<is_closed, initialized, auth_level>>
    /\ UNCHANGED <<codecVars, hostVars>>

\* entities-service upload
Upload == \E cmd \in UploadCommands : Exited(cmd, upload(cmd))

\* Backend.close() that closes an open backend and reopens a closed one.
Close_toggling ==
    /\ is_closed' = ~is_closed
    /\ Called("close", NoItem, Ok(None))
    /\ UNCHANGED <<initialized, auth_level, store, ledger>>
    /\ UNCHANGED <<codecVars, hostVars>>

\* Backend.close() without the check that raises on a closed backend.
Close_idempotent ==
    /\ is_closed' = TRUE
    /\ Called("close", NoItem, Ok(None))
    /\ UNCHANGED <<initialized, auth_level, store, ledger>>
    /\ UNCHANGED <<codecVars, hostVars>>

\* Backend.close()
Close ==
    /\ is_closed' = TRUE
    /\ Called("close", NoItem, IF is_closed THEN Err("BackendError") ELSE Ok(None))
    /\ UNCHANGED <<initialized, auth_level, store, ledger>>
    /\ UNCHANGED <<codecVars, hostVars>>

\* The two runs of the CLI that are compared, and a dotenv file that does
\* not exist.
Runs == {1, 2}
NoFile == [exists |-> FALSE, lines |-> <<>>]

\* Backend.__init__: not closed; nothing initialized, nothing stored.
InitBackend ==
    /\ is_closed = FALSE
    /\ initialized = FALSE
    /\ auth_level \in {"read", "write"}
    /\ store = {}
    /\ ledger = [t \in BackendStrings |-> "never"]
    /\ call = [op |-> "none", arg |-> NoItem, res |-> Ok(None)]

\* A request that the backend's calls leave alone.
IdleCodec ==
    /\ doc = NoDoc
    /\ pc = "raw"
    /\ entity = NoEntity
    /\ errors = <<>>
    /\ out = NoCall

\* No application is running and no dotenv file is there.
IdleHost ==
    /\ app = "none"
    /\ started = FALSE
    /\ dotenv = [run \in Runs |-> NoFile]

Init == InitBackend /\ IdleCodec /\ IdleHost

Next ==
    \/ Initialize
    \/ Create
    \/ Read
    \/ Update
    \/ Delete
    \/ Search
    \/ Count
    \/ Contains
    \/ CreateEntity
    \/ CreateEntities
    \/ Upload
    \/ GetEntity
    \/ Close

\* One backend instance under any sequence of calls.
Spec == Init /\ [][Next]_vars

\* A backend as a request of the identity codec leaves it: never used.
IdleBackend ==
    /\ is_closed = FALSE
    /\ initialized = FALSE
    /\ auth_level = "write"
    /\ store = {}
    /\ ledger = [t \in BackendStrings |-> "never"]
    /\ call = [op |-> "none", arg |-> NoItem, res |-> Ok(None)]

InitCodec(docs) ==
    /\ doc \in docs
    /\ pc = "raw"
    /\ entity = NoEntity
    /\ errors = <<>>
    /\ out = NoCall

InitVersion == IdleBackend /\ InitCodec(VersionDocs) /\ IdleHost
InitIdentity == IdleBackend /\ InitCodec(IdentityDocs) /\ IdleHost

\* The version algorithm over every short version string.
SpecVersion == InitVersion /\ [][NextCodec]_vars

\* The entity model and the identity codec over documents that vary the
\* identity fields.
SpecIdentity == InitIdentity /\ [][NextCodec]_vars

----------------------------------------------------------------------------
(* The service applications.  Each module builds its APP with a lifespan   *)
(* function, which runs to its yield before the first request is handled.  *)

Apps == {"dlite_entities_service", "entities_service"}

\* lifespan() up to its yield: what it leaves of the backend.  One module
\* initializes the backend, opened with write access; the other sets up
\* its logger and no more.
lifespan(module) ==
    IF module = "entities_service"
    THEN [initialized |-> TRUE, auth_level |-> "write"]
    ELSE [initialized |-> initialized, auth_level |-> auth_level]

\* Application startup.
Lifespan ==
    /\ ~started
    /\ started' = TRUE
    /\ initialized' = lifespan(app).initialized
    /\ auth_level' = lifespan(app).auth_level
    /\ Called("lifespan", NoItem, Ok(None))
    /\ UNCHANGED <<is_closed, store, ledger, app, dotenv>>
    /\ UNCHANGED codecVars

\* The requests a running application handles.
ServeGetEntity == started /\ GetEntity
ServeCreateEntity == started /\ app = "dlite_entities_service" /\ CreateEntity
ServeCreateEntities == started /\ app = "dlite_entities_service" /\ CreateEntities

\* The test data the database holds before the service is started.
TestData ==
    {Record(UriA, 1, Resolution[DocA].entity), Record(UriEntity, 2, Resolution[DocEntity].entity)}

InitService ==
    /\ is_closed = FALSE
    /\ initialized = FALSE
    /\ auth_level \in {"read", "write"}
    /\ store \in SUBSET TestData
    /\ ledger = [t \in BackendStrings |->
                    IF t \in Identities(store) THEN "created" ELSE "never"]
    /\ call = [op |-> "none", arg |-> NoItem, res |-> Ok(None)]
    /\ IdleCodec
    /\ app \in Apps
    /\ started = FALSE
    /\ dotenv = [run \in Runs |-> NoFile]

NextService ==
    \/ Lifespan
    \/ ServeGetEntity
    \/ ServeCreateEntity
    \/ ServeCreateEntities

\* An application from its startup on.
SpecService == InitService /\ [][NextService]_vars

----------------------------------------------------------------------------
(* The config commands of the CLI: set, unset, unset-all and show, on the  *)
(* dotenv file.  Two runs are given the same commands and differ only in   *)
(* the values given for a secret option.                                   *)

\* ServiceSettings' fields: the annotation's type and its get_args().
Annotations ==
    [base_url |-> [type |-> "AnyHttpUrl", args |-> {}],
     mongo_uri |-> [type |-> "MongoSrvDsn", args |-> {}],
     mongo_user |-> [type |-> "Union", args |-> {"str", "NoneType"}],
     mongo_password |-> [type |-> "Union", args |-> {"SecretStr", "NoneType"}]]

\* The configuration options, one per field.
ConfigFields == DOMAIN Annotations

SecretTypes == {"SecretStr", "SecretBytes"}

\* sensitive_fields() looking at the annotation only and not at its
\* arguments.
sensitive_fields_annotation_only ==
    [config_name \in ConfigFields |-> Annotations[config_name].type \in SecretTypes]

\* ConfigFields.sensitive_fields(): an option is sensitive when a secret type
\* is among its annotation's arguments or, with no arguments, is the
\* annotation.
sensitive_fields ==
    [config_name \in ConfigFields |->
        IF Annotations[config_name].args # {}
        THEN Annotations[config_name].args \cap SecretTypes # {}
        ELSE Annotations[config_name].type \in SecretTypes]

\* ConfigFields.is_sensitive()
is_sensitive(key) == sensitive_fields[key]

\* f"{CONFIG.model_config['env_prefix']}{key}".upper()
EnvName(key) ==
    CASE key = "base_url" -> "ENTITY_SERVICE_BASE_URL"
      [] key = "mongo_uri" -> "ENTITY_SERVICE_MONGO_URI"
      [] key = "mongo_user" -> "ENTITY_SERVICE_MONGO_USER"
      [] key = "mongo_password" -> "ENTITY_SERVICE_MONGO_PASSWORD"

\* The values the commands are given: for the options whose type is a
\* secret, a value per run; for the others, the same value in both runs.
SecretOptions == {"mongo_password"}
Secrets == {"hunter2", "s3cr3t"}
PlainValues ==
    [base_url |-> {"http://onto-ns.com/meta"},
     mongo_uri |-> {"mongodb://localhost:27017"},
     mongo_user |-> {"guest", "admin"}]
ValuesPerRun(key) ==
    IF key \in SecretOptions THEN [Runs -> Secrets]
    ELSE {[run \in Runs |-> v] : v \in PlainValues[key]}

\* The lines of a dotenv file: a name and a value each.
LineIndex(lines, name) == CHOOSE i \in 1..Len(lines) : lines[i].name = name
HasLine(lines, name) == \E i \in 1..Len(lines) : lines[i].name = name

\* dotenv.set_key: the line of the name is rewritten in place, or appended.
set_key(file, name, value) ==
    [exists |-> TRUE,
     lines |-> IF HasLine(file.lines, name)
               THEN [file.lines EXCEPT ![LineIndex(file.lines, name)].value = value]
               ELSE Append(file.lines, [name |-> name, value |-> value])]

\* dotenv.unset_key: the line of the name is removed.
unset_key(file, name) ==
    LET Other(line) == line.name # name
    IN  [exists |-> file.exists, lines |-> SelectSeq(file.lines, Other)]

\* What a command leaves: the dotenv file, its exit code and what it printed,
\* line by line.
Ran(file, code, stdout, stderr) ==
    [file |-> file, exit_code |-> code, stdout |-> stdout, stderr |-> stderr]

\* set_config(key, value): the value is the argument, or what was typed at
\* the prompt.
set_config(file, key, value) ==
    Ran(set_key(file, EnvName(key), value), 0,
        <<IF is_sensitive(key) THEN <<"Set", EnvName(key), "to sensitive value.">>
          ELSE <<"Set", EnvName(key), "to", value, ".">>>>,
        <<>>)

\* unset(key)
unset(file, key) ==
    IF file.exists
    THEN Ran(unset_key(file, EnvName(key)), 0, <<<<"Unset", EnvName(key), ".">>>>, <<>>)
    ELSE Ran(file, 0, <<<<"file not found.">>>>, <<>>)

\* unset_all(): aborted unless confirmed.
unset_all(file, confirmed) ==
    IF ~confirmed THEN Ran(file, 1, <<>>, <<<<"Aborted.">>>>)
    ELSE IF file.exists
    THEN Ran(NoFile, 0, <<<<"Unset all configuration options.">>>>, <<>>)
    ELSE Ran(file, 0, <<<<"file not found.">>>>, <<>>)

\* The key of a dotenv line: ConfigFields(key[len(env_prefix):].lower()).
FieldOf(name) == CHOOSE key \in ConfigFields : EnvName(key) = name

\* The mask show prints for a sensitive value: "*" * 8.
Mask == "********"

\* show(reveal_sensitive): a line per option of the dotenv file, the value
\* of a sensitive option masked unless it is to be revealed.
show(file, reveal_sensitive) ==
    IF ~file.exists THEN Ran(file, 1, <<>>, <<<<"No file found.">>>>)
    ELSE Ran(file, 0,
             <<<<"Current configuration in file:">>>>
                 \o [i \in 1..Len(file.lines) |->
                        <<file.lines[i].name, ":",
                          IF ~reveal_sensitive /\ is_sensitive(FieldOf(file.lines[i].name))
                          THEN Mask ELSE file.lines[i].value>>],
             <<>>)

\* What a command printed and how it exited, without the file.
Console(ran) == [exit_code |-> ran.exit_code, stdout |-> ran.stdout, stderr |-> ran.stderr]

\* Each run takes its step: the dotenv files and the consoles after it.
RanBoth(op, arg, ran) ==
    /\ dotenv' = [run \in Runs |-> ran[run].file]
    /\ call' = [op |-> op, arg |-> arg, res |-> [run \in Runs |-> Console(ran[run])]]
    /\ UNCHANGED <<is_closed, initialized, auth_level, store, ledger, app, started>>
    /\ UNCHANGED codecVars

\* entities-service config set KEY VALUE
SetConfig ==
    \E key \in ConfigFields :
        \E value \in ValuesPerRun(key) :
            RanBoth("set", [key |-> key],
                    [run \in Runs |-> set_config(dotenv[run], key, value[run])])

\* entities-service config unset KEY
Unset ==
    \E key \in ConfigFields :
        RanBoth("unset", [key |-> key], [run \in Runs |-> unset(dotenv[run], key)])

\* entities-service config unset-all
UnsetAll ==
    \E confirmed \in BOOLEAN :
        RanBoth("unset_all", [confirmed |-> confirmed],
                [run \in Runs |-> unset_all(dotenv[run], confirmed)])

\* entities-service config show [--reveal-sensitive]
Show ==
    \E reveal_sensitive \in BOOLEAN :
        RanBoth("show", [reveal_sensitive |-> reveal_sensitive],
                [run \in Runs |-> show(dotenv[run], reveal_sensitive)])

InitConfig == IdleBackend /\ IdleCodec /\ IdleHost

NextConfig ==
    \/ SetConfig
    \/ Unset
    \/ UnsetAll
    \/ Show

\* The config commands, run twice side by side.
SpecConfig == InitConfig /\ [][NextConfig]_vars

----------------------------------------------------------------------------
(* The backend's lifecycle.                                                *)

\* C1: close() on a backend that is not closed sets is_closed; close() on a
\* closed backend fails with BackendError and leaves is_closed true.
C1_CloseContract ==
    [][call'.op = "close" =>
          /\ is_closed'
          /\ IF is_closed THEN call'.res = Err("BackendError") ELSE call'.res = Ok(None)]_vars

\* C1's case: close() was called on a closed backend, and failed.
C1_Witness == is_closed /\ call.op = "close" /\ call.res = Err("BackendError")

\* The steps of the path Uninitialized -> Initialized -> Closed.
StatedPath ==
    {<<"Uninitialized", "Uninitialized">>, <<"Uninitialized", "Initialized">>,
     <<"Initialized", "Initialized">>, <<"Initialized", "Closed">>,
     <<"Closed", "Closed">>}

PhaseStepIn(steps) == <<Phase, Phase'>> \in steps

\* C2 as stated: a backend starts not closed, Closed is terminal, and the
\* only lifecycle path is Uninitialized -> Initialized -> Closed.
C2_Original ==
    /\ ~is_closed
    /\ [][PhaseStepIn(StatedPath)]_vars

\* C2, amended: a backend starts not closed and Closed is terminal (once
\* is_closed is true no call makes it false); the lifecycle paths are
\* Uninitialized -> Initialized -> Closed and Uninitialized -> Closed, as
\* close() does not require initialize() to have run.
C2_ClosedIsTerminal ==
    /\ ~is_closed
    /\ [][is_closed => is_closed']_vars
    /\ [][PhaseStepIn(StatedPath \cup {<<"Uninitialized", "Closed">>})]_vars

\* C2's case: initialize() was called on a closed backend, which stayed closed.
C2_Witness == is_closed /\ call.op = "initialize"

DataOps == {"create", "read", "update", "delete", "search", "count", "contains"}

\* The containment check returns before it reads: the item is of no known
\* kind, or a raw document that no dialect accepts.
ContainsWithoutRead(item) ==
    item.kind = "other" \/ (item.kind = "dict" /\ ~Resolves(item))

\* C3 as stated: after close() has succeeded no create, read, update,
\* delete, search or count call and no containment check completes
\* successfully.
C3_Original == is_closed /\ call.op \in DataOps => ~call.res.ok

\* C3, amended: after close() has succeeded no create, read, update,
\* delete, search or count call completes successfully, and a containment
\* check fails with them when it reaches read (a string, an entity, a raw
\* document that resolves); for a raw document that fails resolution and for
\* an item of any other kind it still returns false.
C3_ClosedFailsFast ==
    is_closed /\ call.op \in DataOps =>
        IF call.op = "contains" /\ ContainsWithoutRead(call.arg)
        THEN call.res = Ok(FALSE)
        ELSE call.res = Err("BackendError")

\* C3's case: a containment check of a string on a closed backend failed.
C3_Witness ==
    is_closed /\ call.op = "contains" /\ call.arg.kind = "str" /\ ~call.res.ok

----------------------------------------------------------------------------
(* The identity codec, on the entities of the SOFT5 dialect.               *)

HasTriple(e) == e.name # None /\ e.version # None /\ e.namespace # None

\* {namespace}/{version}/{name} of an entity's identity parts
Canonical(e) == e.namespace \o <<"/">> \o e.version \o <<"/">> \o e.name

\* The version segment of a uri {base_url}/{version}/{name}.
VersionSegment(uri) == Split(SubSeq(uri, Len(base_url) + 2, Len(uri)), "/")[1]

\* C6: version_of returns entity.version when it is set, else the version
\* segment of entity.uri, and fails only when neither is available; for an
\* entity with no version and a uri {namespace}/{version}/{name} under the
\* base URL it returns that version.
C6_VersionOf ==
    pc = "entity" /\ entity.dialect = "SOFT5" /\ out.op = "get_version" =>
        /\ entity.version # None => out.res = Ok(entity.version)
        /\ entity.version = None /\ entity.uri # None /\ WellFormedIdentity(entity.uri) =>
               out.res = Ok(VersionSegment(entity.uri))
        /\ ~out.res.ok => entity.version = None /\ entity.uri = None

\* C7: parsing the uri built from a valid identity gives back its namespace,
\* version and name, also when the namespace carries a path.
C7_ParseBuildRoundTrip ==
    /\ pc = "entity" /\ entity.dialect = "SOFT5" /\ out.op = "parse"
    /\ HasTriple(entity) /\ entity.uri = None
    /\ entity.namespace[Len(entity.namespace)] # "/"
    => /\ out.res.ok
       /\ out.res.val.namespace = entity.namespace
       /\ out.res.val.version = entity.version
       /\ out.res.val.name = entity.name

\* namespace with one trailing slash trimmed
TrimSlash(s) == IF Len(s) > 0 /\ s[Len(s)] = "/" THEN SubSeq(s, 1, Len(s) - 1) ELSE s

\* C8: build concatenates {namespace}/{version}/{name} after trimming a
\* trailing slash from namespace, so that no "//" separates namespace and
\* version.
C8_BuildTrimsSlash ==
    /\ pc = "entity" /\ entity.dialect = "SOFT5" /\ out.op = "get_uri"
    /\ HasTriple(entity) /\ entity.uri = None
    => out.res.val = TrimSlash(entity.namespace) \o <<"/">> \o entity.version
                         \o <<"/">> \o entity.name

\* C9: an entity that carries a uri and namespace, version and name is
\* addressed (get_uri) by {namespace}/{version}/{name}.
C9_UriAgreesWithParts ==
    /\ pc = "entity" /\ entity.dialect = "SOFT5" /\ out.op = "get_uri"
    /\ HasTriple(entity) /\ entity.uri # None
    => out.res.val = Canonical(entity)

\* C10: every entity resolve returns has a uri or all of namespace, version
\* and name.
C10_ResolvedHasIdentity ==
    out.op = "soft_entity" /\ out.res.ok /\ entity.dialect = "SOFT5" =>
        entity.uri # None \/ HasTriple(entity)

----------------------------------------------------------------------------
(* The version algorithm (get_updated_version).                            *)

\* The number of "." in s, the place of the last one, and what follows it.
DotCount(s) == Cardinality({i \in 1..Len(s) : s[i] = "."})
LastDot(s) == CHOOSE i \in 1..Len(s) : s[i] = "." /\ \A j \in (i + 1)..Len(s) : s[j] # "."
AfterLastDot(s) == SubSeq(s, LastDot(s) + 1, Len(s))
UpToLastDot(s) == SubSeq(s, 1, LastDot(s))

ShapeError == Err("ValueError: Cannot parse version to get updated version.")

\* get_updated_version has just run on an entity whose version is set.
UpdatedVersionRan ==
    pc = "entity" /\ out.op = "get_updated_version" /\ entity.version # None

\* C4: next_version splits the version on ".": MAJOR yields MAJOR.1,
\* MAJOR.MINOR yields MAJOR.MINOR.1, MAJOR.MINOR.PATCH (PATCH a number) yields
\* MAJOR.MINOR.(PATCH+1) with MAJOR.MINOR unchanged, and more than three
\* components fail with the version-shape error; "1" gives "1.1", "2.3" gives
\* "2.3.1", "2.3.4" gives "2.3.5" and "1.2.3.4" fails.
C4_NextVersion ==
    UpdatedVersionRan =>
        LET v == entity.version
            res == out.res
        IN  /\ DotCount(v) \in {0, 1} => res = Ok(v \o <<".", "1">>)
            /\ DotCount(v) = 2 /\ IsDigits(AfterLastDot(v)) =>
                   /\ res.ok
                   /\ DotCount(res.val) = 2
                   /\ UpToLastDot(res.val) = UpToLastDot(v)
                   /\ IsDigits(AfterLastDot(res.val))
                   /\ DigitsToNat(AfterLastDot(res.val)) = DigitsToNat(AfterLastDot(v)) + 1
                   /\ Len(AfterLastDot(res.val)) > 1 => AfterLastDot(res.val)[1] # "0"
            /\ DotCount(v) > 2 => res = ShapeError
            /\ v = Chars1 => res = Ok(<<"1", ".", "1">>)
            /\ v = Chars2_3 => res = Ok(<<"2", ".", "3", ".", "1">>)
            /\ v = Chars2_3_4 => res = Ok(<<"2", ".", "3", ".", "5">>)
            /\ v = Chars1_2_3_4 => res = ShapeError

\* C4's case: the PATCH of "2.3.4" has been incremented.
C4_Witness ==
    UpdatedVersionRan /\ entity.version = Chars2_3_4 /\ out.res.ok

\* A version of 1 to 3 dot-separated non-negative integer components.
ValidVersionShape(v) ==
    /\ Len(Split(v, ".")) \in 1..3
    /\ \A i \in 1..Len(Split(v, ".")) : IsDigits(Split(v, ".")[i])

\* C5 as stated: every version that is not 1 to 3 dot-separated non-negative
\* integers makes next_version fail instead of returning a new version.
C5_Original ==
    UpdatedVersionRan /\ ~ValidVersionShape(entity.version) => ~out.res.ok

\* C5, amended: next_version checks the number of components, and of the
\* components only PATCH (by int()): it fails exactly when there are more
\* than three components (the version-shape error) or when the third of
\* three components is not an integer literal (int's ValueError); MAJOR,
\* MINOR and the components of 1- and 2-component versions are not checked.
C5_NextVersionFailsOnlyOnCountOrPatch ==
    UpdatedVersionRan =>
        LET v == entity.version
            res == out.res
        IN  /\ res.ok <=> (DotCount(v) <= 2 /\ (DotCount(v) = 2 => IntAccepts(AfterLastDot(v))))
            /\ DotCount(v) > 2 => res = ShapeError
            /\ DotCount(v) = 2 /\ ~IntAccepts(AfterLastDot(v)) =>
                   res = Err("ValueError: invalid literal for int()")

\* C5's case: a version with a non-numeric component got a successor.
C5_Witness ==
    /\ UpdatedVersionRan
    /\ entity.version = <<"a">>
    /\ out.res = Ok(<<"a", ".", "1">>)

----------------------------------------------------------------------------
(* Dialect resolution (soft_entity).                                       *)

\* soft_entity has just run on doc.
Resolving == out.op = "soft_entity"

\* C11: resolve tries the dialects in one fixed order, the newest (SOFT7)
\* first, and returns the entity built by the first dialect that validates
\* the document: a document both dialects accept yields the SOFT7 entity; and
\* a repeated call on the same document selects the same dialect.
C11_FirstDialectWins ==
    /\ [](VersionedSOFTEntity = <<"SOFT7", "SOFT5">>)
    /\ [](Resolving /\ SOFT7Entity(doc).ok =>
              out.res = Ok(SOFT7Entity(doc).val) /\ entity = SOFT7Entity(doc).val)
    /\ [](Resolving /\ ~SOFT7Entity(doc).ok /\ SOFT5Entity(doc).ok =>
              out.res = Ok(SOFT5Entity(doc).val) /\ entity = SOFT5Entity(doc).val)
    /\ [][Resolving /\ out'.op = "soft_entity" => entity' = entity /\ pc' = pc]_vars

\* C11's case: a document that both dialects accept was resolved.
C11_Witness ==
    Resolving /\ SOFT7Entity(doc).ok /\ SOFT5Entity(doc).ok /\ entity.dialect = "SOFT7"

\* C12: resolve fails exactly when no dialect validates the document, and
\* then hands back one error per dialect, in dialect order, both when the
\* list is returned (return_errors) and when it is raised in the ValueError;
\* an entity comes with no errors.
C12_AllFailuresCollected ==
    Resolving =>
        /\ ~out.res.ok <=> (~SOFT7Entity(doc).ok /\ ~SOFT5Entity(doc).ok)
        /\ out.res.ok => errors = <<>>
        /\ ~out.res.ok =>
               /\ out.res.err \in {"errors", "ValueError"}
               /\ Len(errors) = Len(VersionedSOFTEntity)
               /\ \A i \in 1..Len(VersionedSOFTEntity) :
                      errors[i] = [cls |-> VersionedSOFTEntity[i], err |-> "ValidationError"]

\* C12's case: a document without "properties" was refused by every dialect
\* and the errors were raised.
C12_Witness ==
    Resolving /\ doc.props = "absent" /\ out.res = Err("ValueError") /\ Len(errors) = 2

\* C13: resolve has one of two outcomes: an entity (of one dialect, with no
\* errors) whose uri and namespace, when present, begin with the base URL, or
\* no entity and a non-empty list of per-dialect errors; a document whose uri
\* or namespace does not begin with the base URL never yields an entity.
C13_EntityOrFailures ==
    Resolving =>
        /\ out.res.ok =>
               /\ pc = "entity" /\ entity.dialect \in {"SOFT5", "SOFT7"} /\ errors = <<>>
               /\ entity.uri # None => StartsWith(entity.uri, base_url)
               /\ entity.namespace # None => StartsWith(entity.namespace, base_url)
               /\ doc.uri # None => StartsWith(doc.uri, base_url)
               /\ doc.namespace # None => StartsWith(doc.namespace, base_url)
        /\ ~out.res.ok => pc = "rejected" /\ entity = NoEntity /\ Len(errors) > 0

\* C13's case: a document with a uri under the base URL was resolved.
C13_Witness ==
    Resolving /\ out.res.ok /\ entity.uri # None /\ StartsWith(entity.uri, base_url)

\* Some but not all of name, version and namespace are given.
PartialIdentity(data) ==
    /\ \E k \in IdentityKeys : data[k] = None
    /\ \E k \in IdentityKeys : data[k] # None

\* C14: an entity a dialect accepted has name, version and namespace all
\* present or all absent; a document with some but not all of the three is
\* rejected by the dialect, and by resolve only after every dialect has been
\* tried (one error per dialect); a dialect's rejection leaves the next
\* dialect to accept the document.
C14_IdentityAllOrNone ==
    /\ pc = "entity" => ~PartialIdentity(entity)
    /\ out.op = "SOFT5Entity" /\ PartialIdentity(doc) => out.res = Err("ValidationError")
    /\ Resolving /\ PartialIdentity(doc) =>
           /\ ~out.res.ok
           /\ Len(errors) = Len(VersionedSOFTEntity)
           /\ \A i \in 1..Len(VersionedSOFTEntity) : errors[i].cls = VersionedSOFTEntity[i]
    /\ Resolving /\ ~SOFT7Entity(doc).ok /\ SOFT5Entity(doc).ok => entity.dialect = "SOFT5"

\* C14's case: a document with name and version but no namespace, and nothing
\* else wrong with it, was refused by both dialects.
C14_Witness ==
    /\ Resolving /\ ~out.res.ok /\ Len(errors) = 2
    /\ doc.name # None /\ doc.version # None /\ doc.namespace = None
    /\ doc.uri = None /\ doc.meta = None /\ doc.props = "strict"

----------------------------------------------------------------------------
(* The backend's operations.                                               *)

\* There is a record at the identity.
Found(identity) == \E r \in store : r.identity = identity

\* What a containment check that reads the identity gives: whether read
\* found a record, or what read raised.
FoundByRead(identity, res) ==
    IF read(identity).ok THEN res = Ok(Found(identity)) ELSE res = read(identity)

\* C15: `item in backend` is false, without raising, for a raw document that
\* fails resolution, and for the resolved entity otherwise; for a string it
\* is true iff read(item) finds a record; for an entity it is true iff read
\* of get_uri(entity) finds a record; it is false for any other item.  It
\* never changes the stored records.
C15_Containment ==
    /\ [](call.op = "contains" =>
             LET item == call.arg
             IN  /\ item.kind = "other" => call.res = Ok(FALSE)
                 /\ item.kind = "dict" /\ ~SOFT7Entity(item.doc).ok /\ ~SOFT5Entity(item.doc).ok =>
                        call.res = Ok(FALSE)
                 /\ item.kind = "dict" /\ SOFT7Entity(item.doc).ok =>
                        FoundByRead(get_uri(SOFT7Entity(item.doc).val), call.res)
                 /\ item.kind = "dict" /\ ~SOFT7Entity(item.doc).ok /\ SOFT5Entity(item.doc).ok =>
                        FoundByRead(get_uri(SOFT5Entity(item.doc).val), call.res)
                 /\ item.kind = "str" => FoundByRead(item.str, call.res)
                 /\ item.kind = "entity" => FoundByRead(get_uri(item.entity), call.res))
    /\ [][call'.op = "contains" => store' = store]_vars

\* C15's case: a raw document was resolved and its entity's record found.
C15_Witness ==
    call.op = "contains" /\ call.arg.kind = "dict" /\ call.res.ok /\ call.res.val = TRUE

\* The call failed with the error.
Raised(res, e) == ~res.ok /\ res.err = e

\* A raw document that no dialect accepts.
MalformedInput(item) ==
    item.kind = "dict" /\ ~SOFT7Entity(item.doc).ok /\ ~SOFT5Entity(item.doc).ok

\* C16: batch create is all-or-nothing: a create with a malformed item among
\* its inputs fails with the validation errors and leaves the stored records
\* as they were; any failed create leaves them as they were; a successful
\* one adds one record per input.
C16_CreateAllOrNothing ==
    [][call'.op = "create" =>
          LET entities == call'.arg
              malformed == \E i \in 1..Len(entities) : MalformedInput(entities[i])
          IN  /\ malformed => ~call'.res.ok /\ store' = store
              /\ malformed /\ Phase = "Initialized" /\ auth_level = "write" =>
                     Raised(call'.res, "ValidationError")
              /\ ~call'.res.ok => store' = store
              /\ call'.res.ok =>
                     /\ store \subseteq store'
                     /\ Cardinality(store') = Cardinality(store) + Len(entities)]_vars

\* C16's case: a create of one valid and one malformed item failed on a
\* writable, initialized backend.
C16_Witness ==
    /\ call.op = "create" /\ Len(call.arg) = 2
    /\ \E i, j \in 1..2 : MalformedInput(call.arg[i]) /\ ~MalformedInput(call.arg[j])
    /\ Raised(call.res, "ValidationError")

\* The version, the name and the identity of a request GET /{version}/{name}.
PathVersion(item) == Split(item.str, "/")[1]
PathName(item) == Split(item.str, "/")[2]
PathUri(item) == base_url \o <<"/">> \o item.str

C18_UpdateReplaces ==
    [][call'.op = "update" =>
          LET t == call'.arg.str
          IN  /\ Phase = "Initialized" /\ auth_level = "read" =>
                     Raised(call'.res, "BackendWriteAccessError")
              /\ Phase = "Initialized" /\ auth_level = "write" /\ ~Found(t) =>
                     Raised(call'.res, "NotFound")
              /\ ~Found(t) => ~call'.res.ok
              /\ ~call'.res.ok => store' = store
              /\ call'.res.ok =>
                     /\ Found(t)
                     /\ {r \in store' : r.identity # t} = {r \in store : r.identity # t}
                     /\ {r \in store' : r.identity = t} =
                            {Record(t, RecordAt(t)._id, Resolved(call'.arg))}
                     /\ Identities(store') = Identities(store)]_vars

\* C18's case: an update replaced one of two records.
C18_Witness ==
    /\ call.op = "update" /\ call.res.ok /\ Cardinality(store) = 2
    /\ RecordAt(call.arg.str).entity = Resolved(call.arg)

\* C19: delete removes the record at the identity when there is one, and
\* fails otherwise (NotFound under write access): a delete of an identity
\* that was never created, or that was deleted with no create of it since,
\* fails and changes nothing.
C19_DeleteNotIdempotent ==
    [][call'.op = "delete" =>
          LET t == call'.arg.str
          IN  /\ ledger[t] # "created" => ~call'.res.ok /\ store' = store
              /\ ledger[t] # "created" /\ Phase = "Initialized" /\ auth_level = "write" =>
                     Raised(call'.res, "NotFound")
              /\ ledger[t] = "created" /\ Phase = "Initialized" /\ auth_level = "write" =>
                     call'.res.ok
              /\ call'.res.ok =>
                     /\ Found(t)
                     /\ store' = {r \in store : r.identity # t}
                     /\ t \notin Identities(store')
                     /\ ledger'[t] = "deleted"]_vars

\* C19's case: a second delete of an identity, with no create of it since
\* the first, failed with NotFound.
C19_Witness ==
    /\ call.op = "delete" /\ Raised(call.res, "NotFound")
    /\ ledger[call.arg.str] = "deleted"

\* The identities a batch that resolves would be created at.
BatchIdentities(entities) ==
    {get_uri(Resolved(entities[i])) : i \in {j \in 1..Len(entities) : Resolves(entities[j])}}

\* C20: there is at most one record per identity: a create of an identity
\* that was created and not deleted since fails (as a duplicate, when that is
\* all that is wrong) and changes nothing, and a create of one entity at an
\* identity with no record succeeds on a writable, initialized backend.
C20_UniqueIdentity ==
    /\ [](\A r1, r2 \in store : r1.identity = r2.identity => r1 = r2)
    /\ [](\A t \in DOMAIN ledger : ledger[t] = "created" <=> Found(t))
    /\ [][call'.op = "create" =>
             LET entities == call'.arg
                 taken == \E t \in BatchIdentities(entities) : ledger[t] = "created"
                 valid == \A i \in 1..Len(entities) : Resolves(entities[i])
                 writable == Phase = "Initialized" /\ auth_level = "write"
             IN  /\ taken => ~call'.res.ok /\ store' = store
                 /\ taken /\ valid /\ writable => Raised(call'.res, "DuplicateError")
                 /\ ~taken /\ valid /\ writable /\ Len(entities) = 1 => call'.res.ok]_vars

\* C20's case: the second of two creates of one identity failed as a
\* duplicate.
C20_Witness ==
    /\ call.op = "create" /\ Len(call.arg) = 1 /\ Raised(call.res, "DuplicateError")
    /\ \A t \in BatchIdentities(call.arg) : ledger[t] = "created"

----------------------------------------------------------------------------
(* C21: create/read round trip.                                            *)

\* The raw document an input of create stands for.
InputDocument(item) ==
    IF item.kind = "dict" THEN item.doc
    ELSE CHOOSE d \in BackendDocs :
             Resolution[d].kind = "entity" /\ Resolution[d].entity = item.entity

DocumentKeys == {"name", "version", "namespace", "uri", "meta"}

\* A returned mapping e equals the document d field for field: it holds the
\* keys the document gives, with the document's values, and no other key.
SameFields(e, d) ==
    /\ \A k \in DocumentKeys : (k \in e.fields_set <=> d[k] # None)
    /\ \A k \in DocumentKeys : d[k] # None => e[k] = d[k]
    /\ ("properties" \in e.fields_set <=> d.props # "absent")
    /\ e.props = d.props

\* C21: after a successful create every input document is stored at its
\* canonical identity equal to the input field for field, and a successful
\* upload of N entity files adds exactly N records, one per file, each equal
\* to its file; read and the GET route return the stored fields without the
\* engine's identifier, and the GET route's document holds exactly the
\* fields that were given, with their values.
C21_RoundTrip ==
    /\ [][call'.op = "create" /\ call'.res.ok =>
              \A i \in 1..Len(call'.arg) :
                  \E r \in store' :
                      /\ r.identity = get_uri(Resolved(call'.arg[i]))
                      /\ SameFields(r.entity, InputDocument(call'.arg[i]))]_vars
    /\ [][call'.op = "upload" /\ call'.res.exit_code = 0
             /\ call'.res.stdout \notin {<<"Usage">>, <<"No entities were uploaded.">>} =>
              LET files == OfFormat(FilePaths(call'.arg), EntityFileFormats)
              IN  /\ call'.res.stdout = <<"Successfully uploaded", Len(files), "entities:">>
                  /\ Cardinality(store') = Cardinality(store) + Len(files)
                  /\ store \subseteq store'
                  /\ \A i \in 1..Len(files) :
                         \E r \in store' \ store : SameFields(r.entity, files[i].doc)]_vars
    /\ [](call.op = "read" /\ call.res.ok /\ Found(call.arg.str) =>
              /\ "_id" \notin DOMAIN call.res.val
              /\ "_id" \in DOMAIN RecordAt(call.arg.str)
              /\ call.res.val = RecordAt(call.arg.str).entity)
    /\ [](call.op = "get_entity" /\ call.res.ok =>
              /\ "_id" \notin DOMAIN call.res.val
              /\ \E d \in BackendDocs :
                     /\ SameFields(RecordAt(PathUri(call.arg)).entity, d)
                     /\ call.res.val = d)

\* C21's case: with two records stored, GET /0.3/Entity answered with the
\* document that was created, which names only its uri and its properties.
C21_Witness ==
    /\ call.op = "get_entity" /\ call.res.ok
    /\ call.res.val = DocEntity
    /\ Cardinality(store) = 2

----------------------------------------------------------------------------
(* C22: what create returns, and the single-entity create route.           *)

\* C22: a successful create returns the one created record for exactly one
\* input and a list with one record per input otherwise; POST /_admin/create
\* never answers 502, answers 201 with the created document whenever it
\* stored a record, succeeds whenever the identity is free on an
\* initialized backend with write access, and stores nothing when it fails.
C22_SingleCreateReturnsRecord ==
    /\ [][call'.op = "create" /\ call'.res.ok =>
              IF Len(call'.arg) = 1
              THEN call'.res.val = Resolved(call'.arg[1])
              ELSE /\ IsList(call'.res.val)
                   /\ call'.res.val.list = [i \in 1..Len(call'.arg) |-> Resolved(call'.arg[i])]]_vars
    /\ [][call'.op = "create_entity" =>
              LET e == call'.arg.entity
              IN  /\ ~Raised(call'.res, "502 Bad Gateway")
                  /\ store' # store => call'.res.ok
                  /\ ~call'.res.ok => store' = store
                  /\ Phase = "Initialized" /\ auth_level = "write" /\ ~Found(get_uri(e)) =>
                         call'.res.ok
                  /\ call'.res.ok =>
                         /\ call'.res.val = model_dump(e)
                         /\ {r.entity : r \in store' \ store} = {e}]_vars

\* C22's case: POST /_admin/create answered 201 with the record it added to
\* one that was there.
C22_Witness ==
    /\ call.op = "create_entity" /\ call.res.ok
    /\ call.res.val = model_dump(call.arg.entity)
    /\ Cardinality(store) = 2

----------------------------------------------------------------------------
(* C23: the upload command on bad input.                                   *)

\* A --file in a supported format that is no valid entity.
InvalidEntityFile(cmd) ==
    /\ cmd.file # <<>>
    /\ cmd.file[1].suffix \in EntityFileFormats
    /\ ~Resolves(DictItem(cmd.file[1].doc))

\* A --file that cannot be loaded as a valid entity, whatever the reason.
UnloadableFile(cmd) ==
    /\ cmd.file # <<>>
    /\ cmd.file[1].suffix \notin EntityFileFormats \/ ~Resolves(DictItem(cmd.file[1].doc))

\* A --dir with no file of the requested format.
NoFileOfFormat(cmd) ==
    /\ cmd.dir # <<>>
    /\ \A i \in 1..Len(cmd.dir[1]) : cmd.dir[1][i].suffix \notin {"json"}

\* The command failed: exit code 1 and nothing on standard output.
FailedSilently(res) == res.exit_code = 1 /\ res.stdout = <<>>

\* C23 as stated: whenever the file cannot be loaded as a valid entity,
\* neither a file nor a directory is given, or the directory holds no file
\* of the requested format, upload exits with code 1, prints nothing on
\* standard output and leaves the records as they were.
C23_Original ==
    [][call'.op = "upload" =>
          LET cmd == call'.arg
          IN  \/ UnloadableFile(cmd)
              \/ cmd.file = <<>> /\ cmd.dir = <<>>
              \/ NoFileOfFormat(cmd)
              => FailedSilently(call'.res) /\ store' = store]_vars

\* C23: upload exits with code 1, prints nothing on standard output and
\* leaves the records as they were when the given file has a supported
\* format and is no valid entity, when an option is given but neither a file
\* nor a directory, and when the directory holds no file of the requested
\* format; with no argument at all it prints its usage and exits with code
\* 0, and a file in an unsupported format is skipped with exit code 0 and
\* "No entities were uploaded."; none of these changes the records.
C23_UploadStoresNothingOnBadInput ==
    [][call'.op = "upload" =>
          LET cmd == call'.arg
              bare == cmd.file = <<>> /\ cmd.dir = <<>> /\ cmd.format = <<>>
          IN  /\ \/ InvalidEntityFile(cmd)
                 \/ cmd.file = <<>> /\ cmd.dir = <<>> /\ ~bare
                 \/ NoFileOfFormat(cmd)
                 => FailedSilently(call'.res) /\ store' = store
              /\ bare =>
                     /\ call'.res.exit_code = 0 /\ call'.res.stdout = <<"Usage">>
                     /\ store' = store
              /\ UnloadableFile(cmd) /\ ~InvalidEntityFile(cmd) =>
                     /\ call'.res.exit_code = 0
                     /\ call'.res.stdout = <<"No entities were uploaded.">>
                     /\ store' = store
              /\ call'.res.exit_code = 1 => store' = store]_vars

\* C23's case: with a record stored, upload of a JSON file that is no valid
\* entity exited with code 1 and printed nothing on standard output.
C23_Witness ==
    /\ call.op = "upload" /\ call.arg.file = <<FileInvalid>>
    /\ FailedSilently(call.res)
    /\ store # {}

----------------------------------------------------------------------------
(* C24: the backend is initialized before a request is handled.            *)

\* C24: every read of the GET route's handler (a request whose version and
\* name passed the route's patterns) happens on a backend on which
\* initialize() has completed, whichever application module is running.
C24_InitializedBeforeRead ==
    call.op = "get_entity" /\ ~Raised(call.res, "422 Unprocessable Entity") => initialized

----------------------------------------------------------------------------
(* C25: the config commands do not print a secret.                         *)

\* Everything a command printed on standard output, word by word.
Printed(console) ==
    UNION {{console.stdout[i][j] : j \in 1..Len(console.stdout[i])} :
               i \in 1..Len(console.stdout)}

\* The options a dotenv file sets.
OptionsSet(file) == {FieldOf(file.lines[i].name) : i \in 1..Len(file.lines)}

\* C25: after any sequence of set and unset commands, `config show` without
\* --reveal-sensitive prints the fixed mask for every secret option that is
\* set and prints no secret value, so that two runs that differ only in the
\* secrets print the same; `config set` of a secret option prints "sensitive
\* value" and not the value; unset and unset-all print no value either.
C25_SecretsNotPrinted ==
    /\ call.op = "show" /\ ~call.arg.reveal_sensitive =>
           /\ call.res[1] = call.res[2]
           /\ \A run \in Runs :
                  /\ Printed(call.res[run]) \cap Secrets = {}
                  /\ \A key \in SecretOptions \cap OptionsSet(dotenv[run]) :
                         <<EnvName(key), ":", Mask>> \in
                             {call.res[run].stdout[i] : i \in 1..Len(call.res[run].stdout)}
    /\ call.op = "set" /\ call.arg.key \in SecretOptions =>
           /\ call.res[1] = call.res[2]
           /\ \A run \in Runs :
                  call.res[run].stdout = <<<<"Set", EnvName(call.arg.key), "to sensitive value.">>>>
    /\ call.op \in {"unset", "unset_all"} =>
           /\ call.res[1] = call.res[2]
           /\ \A run \in Runs : Printed(call.res[run]) \cap Secrets = {}

\* C25's case: the two runs hold different passwords, next to another
\* option, and `config show` printed the mask in both.
C25_Witness ==
    /\ call.op = "show" /\ ~call.arg.reveal_sensitive
    /\ dotenv[1] # dotenv[2]
    /\ Len(dotenv[1].lines) >= 2
    /\ Mask \in Printed(call.res[1])

====
